---- MODULE Spec2Model ----
(***************************************************************************)
(* Data-preparation pipeline of the toxic comment classifier:             *)
(* dataset.py (compute_vocab, LabelIndexMap, ToxicCommentDataset,         *)
(* produce_datasets) and train.py (CollatePad).                           *)
(*                                                                         *)
(* Python strings are sequences of one-character strings. A Python dict   *)
(* is a sequence of <<key, value>> pairs in insertion order. An optional  *)
(* argument is None (the empty sequence) or <<value>>. List positions are *)
(* Python's, counted from 0.                                               *)
(***************************************************************************)
EXTENDS Integers, Sequences, FiniteSets, TLC

VARIABLES op, err,
          all_labels, sort_key, required_mappings, set_order, self,
          file, loaded,
          rows, max_size, text_tokens, tokens,
          vocab, val_ratio, train_set, val_set,
          batch, pad_value, padded_batch, lengths

vars == <<op, err, all_labels, sort_key, required_mappings, set_order, self,
          file, loaded, rows, max_size, text_tokens, tokens,
          vocab, val_ratio, train_set, val_set,
          batch, pad_value, padded_batch, lengths>>

\* ------------------------------------------------------------------ bounds

\* longest all_labels argument of LabelIndexMap
MaxLabels == 3
\* most rows of the corpus file read by compute_vocab
MaxRows == 2
\* largest max_size argument of compute_vocab
MaxSize == 5
\* most tokens of a comment handed to ToxicCommentDataset.__getitem__
MaxTokens == 2
\* most rows of the csv file read by produce_datasets (header included)
MaxCsvRows == 4
\* val_ratio ranges over the fractions k / RatioDen
RatioDen == 4
\* most examples of a batch, longest sequence of an example
MaxBatch == 3
MaxSeqLen == 1

\* ----------------------------------------------------------------- general

None == <<>>
Some(x) == <<x>>

Range(s) == {s[i] : i \in DOMAIN s}
SeqsUpTo(S, n) == UNION {[1..k -> S] : k \in 0..n}
Min(a, b) == IF a <= b THEN a ELSE b
Max(a, b) == IF a >= b THEN a ELSE b

\* every order in which iterating a Python set of these elements can yield them
RECURSIVE Orders(_)
Orders(S) ==
    IF S = {} THEN {<<>>}
    ELSE UNION {{<<x>> \o rest : rest \in Orders(S \ {x})} : x \in S}

\* ----- Python dict, in insertion order
Keys(d) == {d[i][1] : i \in DOMAIN d}
HasKey(d, k) == k \in Keys(d)
Get(d, k) == d[CHOOSE i \in DOMAIN d : d[i][1] = k][2]
Put(d, k, v) ==
    IF HasKey(d, k) THEN [i \in DOMAIN d |-> IF d[i][1] = k THEN <<k, v>> ELSE d[i]]
    ELSE Append(d, <<k, v>>)

RECURSIVE DictOf(_)
\* dict(pairs): a later pair of a key replaces the value and keeps the place
DictOf(pairs) ==
    IF pairs = <<>> THEN <<>>
    ELSE Put(DictOf(SubSeq(pairs, 1, Len(pairs) - 1)),
             pairs[Len(pairs)][1], pairs[Len(pairs)][2])

\* ----- Python list access, positions from 0, negative ones from the end
InRange(l, i) == -Len(l) <= i /\ i < Len(l)
Pos(l, i) == IF i < 0 THEN Len(l) + i + 1 ELSE i + 1
Item(l, i) == l[Pos(l, i)]
SetItem(l, i, x) == [j \in DOMAIN l |-> IF j = Pos(l, i) THEN x ELSE l[j]]
\* list.index(x) of an element the list holds
index(l, x) == (CHOOSE i \in DOMAIN l : l[i] = x /\ \A j \in 1..(i - 1) : l[j] # x) - 1
\* l[:k] and l[k:]
SliceTo(l, k) ==
    IF k >= 0 THEN SubSeq(l, 1, Min(k, Len(l))) ELSE SubSeq(l, 1, Max(0, Len(l) + k))
SliceFrom(l, k) ==
    IF k >= 0 THEN SubSeq(l, Min(k, Len(l)) + 1, Len(l))
    ELSE SubSeq(l, Max(0, Len(l) + k) + 1, Len(l))

\* ----- sorted(), on <<key, item>> pairs: stable, also with reverse=True
InsertKeyed(s, x, reverse) ==
    LET before(y) == IF reverse THEN y[1] >= x[1] ELSE y[1] <= x[1]
        n == Cardinality({i \in DOMAIN s : \A j \in 1..i : before(s[j])})
    IN SubSeq(s, 1, n) \o <<x>> \o SubSeq(s, n + 1, Len(s))

RECURSIVE sorted(_, _)
sorted(keyed, reverse) ==
    IF keyed = <<>> THEN <<>>
    ELSE InsertKeyed(sorted(SubSeq(keyed, 1, Len(keyed) - 1), reverse),
                     keyed[Len(keyed)], reverse)

Items(keyed) == [i \in DOMAIN keyed |-> keyed[i][2]]

\* ----------------------------------------------------------------- strings

Whitespace == {" ", "\t", "\n"}

RECURSIVE SplitAcc(_, _, _)
SplitAcc(s, cur, acc) ==
    IF s = <<>> THEN (IF cur = <<>> THEN acc ELSE Append(acc, cur))
    ELSE IF Head(s) \in Whitespace
         THEN SplitAcc(Tail(s), <<>>, IF cur = <<>> THEN acc ELSE Append(acc, cur))
         ELSE SplitAcc(Tail(s), Append(cur, Head(s)), acc)

\* str.split(): the maximal runs of characters that are not whitespace
split(s) == SplitAcc(s, <<>>, <<>>)

RECURSIVE LinesAcc(_, _, _)
LinesAcc(s, cur, acc) ==
    IF s = <<>> THEN (IF cur = <<>> THEN acc ELSE Append(acc, cur))
    ELSE IF Head(s) = "\n"
         THEN LinesAcc(Tail(s), <<>>, Append(acc, Append(cur, "\n")))
         ELSE LinesAcc(Tail(s), Append(cur, Head(s)), acc)

\* "for row in f": the lines of a text file, each with its line end
Lines(f) == LinesAcc(f, <<>>, <<>>)

Digits == <<"0", "1", "2", "3", "4", "5", "6", "7", "8", "9">>

RECURSIVE str(_)
\* "{}".format(n) of an int n >= 0
str(n) == IF n < 10 THEN <<Digits[n + 1]>> ELSE Append(str(n \div 10), Digits[(n % 10) + 1])

IsInt(s) == s # <<>> /\ \A i \in DOMAIN s : s[i] \in Range(Digits)

RECURSIVE int(_)
\* int(s) of a string of decimal digits
int(s) ==
    IF Len(s) = 1 THEN index(Digits, s[1])
    ELSE 10 * int(SubSeq(s, 1, Len(s) - 1)) + index(Digits, s[Len(s)])

\* str.lower() left out
SameChar(c) == c

LowerChar(c) ==
    CASE c = "A" -> "a" [] c = "B" -> "b" [] c = "D" -> "d" [] c = "K" -> "k"
      [] c = "N" -> "n" [] c = "P" -> "p" [] c = "U" -> "u" [] OTHER -> c

\* str.lower()
lower(s) == [i \in DOMAIN s |-> LowerChar(s[i])]

PAD == <<"<", "P", "A", "D", ">">>
UNK == <<"<", "U", "N", "K", ">">>

\* ------------------------------------------------------------ LabelIndexMap

NoMap(e) == [err |-> e, individual_labels |-> <<>>,
             label_to_index |-> <<>>, index_to_label |-> <<>>]

\* the key functions the callers pass as sort_key
KeyOf(key, label) == IF key = "len" THEN Len(label) ELSE 0

\* lines 48-49 with the test left out
NeverIncompatible(labels, required, element, required_position) == FALSE

\* lines 48-49: the label at the required position is itself required there
Incompatible(labels, required, element, required_position) ==
    LET there == Item(labels, required_position)
    IN HasKey(required, there) /\ Get(required, there) = required_position
       /\ element # there

\* lines 56-58 without line 57: the displaced label is not kept
SwapDropsDisplaced(labels, element, required_position) ==
    SetItem(labels, required_position, element)

\* lines 56-58
Swap(labels, element, required_position) ==
    LET current_position == index(labels, element)
        moved == SetItem(labels, current_position, Item(labels, required_position))
    IN SetItem(moved, required_position, element)

RECURSIVE Place(_, _, _)
\* lines 45-58: the entries of required_mappings still to process are items
Place(labels, items, required) ==
    IF items = <<>> THEN [err |-> "none", labels |-> labels]
    ELSE LET element == items[1][1]
             required_position == items[1][2]
         IN IF required_position >= Len(labels)
            THEN [err |-> "ValueError", labels |-> labels]
            ELSE IF ~InRange(labels, required_position)
            THEN [err |-> "IndexError", labels |-> labels]
            ELSE IF Incompatible(labels, required, element, required_position)
            THEN [err |-> "ValueError", labels |-> labels]
            ELSE IF element \notin Range(labels)
            THEN [err |-> "ValueError", labels |-> labels]
            ELSE Place(Swap(labels, element, required_position), Tail(items), required)

\* line 42
SortLabels(given_labels, key) ==
    Items(sorted([i \in DOMAIN given_labels |->
                     <<KeyOf(key, given_labels[i]), given_labels[i]>>], FALSE))

\* lines 60-61
Enumerate(labels) ==
    [err |-> "none", individual_labels |-> labels,
     label_to_index |-> DictOf([i \in DOMAIN labels |-> <<labels[i], i - 1>>]),
     index_to_label |-> DictOf([i \in DOMAIN labels |-> <<i - 1, labels[i]>>])]

\* LabelIndexMap(given_labels, sort_key=key, required_mappings=required), where
\* order is the order list(set(given_labels)) comes out in
LabelIndexMap(given_labels, key, required, order) ==
    IF ~(key = "None" \/ required = None) THEN NoMap("AssertionError")
    ELSE LET unsorted == order
             labels == IF key # "None" THEN SortLabels(given_labels, key) ELSE unsorted
             placed == IF required # None THEN Place(labels, required[1], required[1])
                       ELSE [err |-> "none", labels |-> labels]
         IN IF placed.err # "none" THEN NoMap(placed.err) ELSE Enumerate(placed.labels)

\* __getitem__ and __len__
index_of(m, label) == Get(m.label_to_index, label)
size(m) == Len(m.label_to_index)

\* save(): one "label<TAB>index" line per entry of label_to_index
save(m) ==
    LET RECURSIVE Write(_)
        Write(d) == IF d = <<>> THEN <<>>
                    ELSE d[1][1] \o <<"\t">> \o str(d[1][2]) \o <<"\n">> \o Write(Tail(d))
    IN Write(m.label_to_index)

RECURSIVE ParseRows(_, _)
\* lines 76-80 of load(): the dict v, or the error of the first row that fails
ParseRows(lines, v) ==
    IF lines = <<>> THEN [err |-> "none", v |-> v]
    ELSE LET fields == split(lines[1])
         IN IF Len(fields) # 2 THEN [err |-> "ValueError", v |-> v]
            ELSE IF ~IsInt(fields[2]) THEN [err |-> "ValueError", v |-> v]
            ELSE ParseRows(Tail(lines), Put(v, fields[1], int(fields[2])))

\* load(): order is the order list(set(v.keys())) comes out in
load(f, order) ==
    LET parsed == ParseRows(Lines(f), <<>>)
    IN IF parsed.err # "none" THEN NoMap(parsed.err)
       ELSE LabelIndexMap([i \in DOMAIN parsed.v |-> parsed.v[i][1]], "None",
                          Some(parsed.v), order)

LoadOrders(f) == Orders(Keys(ParseRows(Lines(f), <<>>).v))

\* ------------------------------------------------ LabelIndexMap: construction

\* the labels of the maps under construction: strings of different lengths
Labels == {<<"a">>, <<"b">>, <<"c", "c">>}

\* every dict from some of the labels to positions, in every insertion order
Dicts(L, P) ==
    {d \in SeqsUpTo(L \X P, Cardinality(L)) :
        \A i, j \in DOMAIN d : d[i][1] = d[j][1] => i = j}

NoMapVars ==
    /\ all_labels = <<>> /\ sort_key = "None" /\ required_mappings = None
    /\ set_order = <<>> /\ self = NoMap("unset")
NoFileVars == file = <<>> /\ loaded = NoMap("unset")
NoVocabVars == rows = <<>> /\ max_size = None /\ text_tokens = <<>> /\ tokens = <<>>
NoSplitVars == vocab = "unset" /\ val_ratio = <<0, 1>> /\ train_set = <<>> /\ val_set = <<>>
NoCollateVars == batch = <<>> /\ pad_value = 0 /\ padded_batch = <<>> /\ lengths = <<>>

InitMap ==
    /\ op = "init" /\ err = "none"
    /\ all_labels \in SeqsUpTo(Labels, MaxLabels)
    /\ sort_key \in {"None", "len"}
    /\ required_mappings \in {None} \cup {Some(d) : d \in Dicts(Labels, 0..MaxLabels)}
    /\ set_order = <<>> /\ self = NoMap("unset")
    /\ NoFileVars /\ NoVocabVars /\ NoSplitVars /\ NoCollateVars

\* LabelIndexMap.__init__
Construct ==
    /\ op = "init"
    /\ \E order \in Orders(Range(all_labels)) :
          /\ set_order' = order
          /\ self' = LabelIndexMap(all_labels, sort_key, required_mappings, order)
    /\ err' = self'.err
    /\ op' = "construct"
    /\ UNCHANGED <<all_labels, sort_key, required_mappings, file, loaded, rows,
                   max_size, text_tokens, tokens, vocab, val_ratio, train_set,
                   val_set, batch, pad_value, padded_batch, lengths>>

NextMap == Construct

SpecMap == InitMap /\ [][NextMap]_vars

\* ----- the claims about construction

Constructed == op = "construct"
DistinctLabels == Range(all_labels)
NumLabels == Cardinality(DistinctLabels)
Required == required_mappings[1]

\* required_mappings is consistent with the labels: its labels are labels of the
\* map, its positions lie in 0..N-1 and no two of them are equal
Consistent ==
    /\ \A i \in DOMAIN Required :
          Required[i][1] \in DistinctLabels /\ Required[i][2] \in 0..(NumLabels - 1)
    /\ \A i, j \in DOMAIN Required : Required[i][2] = Required[j][2] => i = j

\* some required position is >= N, or two different labels claim one position
Conflicting ==
    \/ \E i \in DOMAIN Required : Required[i][2] >= NumLabels
    \/ \E i, j \in DOMAIN Required : i # j /\ Required[i][2] = Required[j][2]

RequiredPath == Constructed /\ sort_key = "None" /\ required_mappings # None

\* the map is a bijection between the distinct labels and 0..N-1, and
\* index_to_label is the inverse of label_to_index
IsBijection(m, labels) ==
    /\ Keys(m.label_to_index) = labels
    /\ {m.label_to_index[i][2] : i \in DOMAIN m.label_to_index}
          = 0..(Cardinality(labels) - 1)
    /\ Keys(m.index_to_label) = 0..(Cardinality(labels) - 1)
    /\ \A l \in labels : Get(m.index_to_label, Get(m.label_to_index, l)) = l
    /\ \A i \in 0..(Cardinality(labels) - 1) :
          Get(m.label_to_index, Get(m.index_to_label, i)) = i

\* C1: with required_mappings consistent with the labels, construction succeeds
\* and every required label has its required index, for every order the
\* deduplicated labels start in and every order the entries are processed in.
C1_RequiredPositionsHold ==
    (RequiredPath /\ Consistent) =>
        /\ err = "none"
        /\ \A i \in DOMAIN Required : index_of(self, Required[i][1]) = Required[i][2]

\* two required labels, neither of which starts at its position, the second
\* entry's position being where the first entry's label started
C1_Witness ==
    /\ RequiredPath /\ Consistent /\ NumLabels = 3 /\ Len(Required) = 2
    /\ index(set_order, Required[1][1]) = Required[2][2]
    /\ index(set_order, Required[2][1]) # Required[2][2]
    /\ index(set_order, Required[1][1]) # Required[1][2]
    /\ err = "none"

\* C2: every constructed map is a bijection between the distinct input labels
\* and 0..N-1 with index_to_label the inverse of label_to_index, on the plain,
\* the sort_key and the required_mappings path, duplicates in the input included.
C2_Bijection ==
    (Constructed /\ err = "none") => IsBijection(self, DistinctLabels)

\* C9: on the required_mappings path construction fails, with no map, whenever
\* a required position is >= N or two different labels claim one position, and
\* it succeeds whenever required_mappings is consistent with the labels.
C9_ConflictsRejected ==
    RequiredPath =>
        /\ Conflicting => (err # "none" /\ self = NoMap(err))
        /\ Consistent => err = "none"

\* two labels claim position 0, which neither of them starts at
C9_Witness ==
    /\ RequiredPath /\ NumLabels = 3 /\ Len(Required) = 2
    /\ Required[1][2] = 0 /\ Required[2][2] = 0
    /\ set_order[1] \notin {Required[1][1], Required[2][1]}
    /\ err = "ValueError"

\* ------------------------------------------------- LabelIndexMap: save, load

\* labels for the maps that are saved: with and without whitespace
FileLabels == {<<"a">>, <<"b">>, <<" ", "b">>, <<"a", " ", "b">>}

InitFile ==
    /\ op = "init" /\ err = "none"
    /\ all_labels \in SeqsUpTo(FileLabels, MaxLabels)
    /\ sort_key \in {"None", "len"}
    /\ required_mappings = None
    /\ set_order = <<>> /\ self = NoMap("unset")
    /\ NoFileVars /\ NoVocabVars /\ NoSplitVars /\ NoCollateVars

\* LabelIndexMap.save of the constructed map
Save ==
    /\ op = "construct" /\ err = "none"
    /\ file' = save(self)
    /\ op' = "save"
    /\ UNCHANGED <<err, all_labels, sort_key, required_mappings, set_order, self,
                   loaded, rows, max_size, text_tokens, tokens, vocab, val_ratio,
                   train_set, val_set, batch, pad_value, padded_batch, lengths>>

\* LabelIndexMap.load of the file written last
Load ==
    /\ op \in {"save", "compute_vocab"} /\ err = "none"
    /\ \E order \in LoadOrders(file) : loaded' = load(file, order)
    /\ err' = loaded'.err
    /\ op' = "load"
    /\ UNCHANGED <<all_labels, sort_key, required_mappings, set_order, self, file,
                   rows, max_size, text_tokens, tokens, vocab, val_ratio,
                   train_set, val_set, batch, pad_value, padded_batch, lengths>>

NextFile == Construct \/ Save \/ Load

SpecFile == InitFile /\ [][NextFile]_vars

\* the label-index pairs of a map
Pairs(m) == Range(m.label_to_index)

\* C3: load(save(M)) succeeds and has the label-index pairs of M, for every
\* constructed map M and every order load's label set is enumerated in.
\* Stated here for the maps whose labels hold no whitespace.
C3_RoundTrip ==
    (op = "load" /\ \A l \in Keys(self.label_to_index) : split(l) = <<l>>)
        => (err = "none" /\ Pairs(loaded) = Pairs(self))

\* ------------------------------------------------------------ compute_vocab

\* line 15: the lower-cased tokens of the text column, row after row
RECURSIVE all_words(_)
all_words(rs) ==
    IF rs = <<>> THEN <<>>
    ELSE LET toks == split(rs[1])
         IN [i \in DOMAIN toks |-> lower(toks[i])] \o all_words(Tail(rs))

RECURSIVE Count(_, _)
\* lines 16-18
Count(words, occurrences) ==
    IF words = <<>> THEN occurrences
    ELSE Count(Tail(words),
               Put(occurrences, words[1],
                   (IF HasKey(occurrences, words[1])
                    THEN Get(occurrences, words[1]) ELSE 0) + 1))

Occurrences(rs) == Count(all_words(rs), <<>>)

\* lines 19-24: the set handed to LabelIndexMap
VocabSet(rs, limit) ==
    LET occurrences == Occurrences(rs)
        size_limit == IF limit = None THEN Len(occurrences) ELSE limit[1]
        by_count == Items(sorted([i \in DOMAIN occurrences |->
                                     <<occurrences[i][2], occurrences[i]>>], TRUE))
        kept == SliceTo(by_count, size_limit - 1)
    IN {kept[i][1] : i \in DOMAIN kept} \cup {PAD, UNK}

\* line 25
ReservedMappings == <<<<PAD, 0>>, <<UNK, 1>>>>

\* lines 28-30: one "label index" line per entry of label_to_index
WriteVocab(m) ==
    LET RECURSIVE Write(_)
        Write(d) == IF d = <<>> THEN <<>>
                    ELSE d[1][1] \o <<" ">> \o str(d[1][2]) \o <<"\n">> \o Write(Tail(d))
    IN Write(m.label_to_index)

\* compute_vocab: order is the order the vocab set is enumerated in by
\* LabelIndexMap; the destination file is written only if no error is raised
compute_vocab(rs, limit, order) ==
    LET m == LabelIndexMap(order, "None", Some(ReservedMappings), order)
    IN [err |-> m.err, vocab |-> m,
        file |-> IF m.err = "none" THEN WriteVocab(m) ELSE <<>>]

\* lines 94-95 with the fallback to the padding token
EncodePadFallback(label_to_index, token) ==
    IF HasKey(label_to_index, lower(token)) THEN Get(label_to_index, lower(token))
    ELSE Get(label_to_index, PAD)

\* lines 94-95, one token
Encode(label_to_index, token) ==
    IF HasKey(label_to_index, lower(token)) THEN Get(label_to_index, lower(token))
    ELSE Get(label_to_index, UNK)

\* the text column of the corpus rows
Texts == {<<>>, <<"a">>, <<"a", " ", "b">>, <<"B", " ", "a">>,
          PAD \o <<" ", "b">>}

\* the tokens word_tokenize finds in a comment
TokenPool == {<<"a">>, <<"B">>, <<"z">>, UNK}

InitVocab ==
    /\ op = "init" /\ err = "none"
    /\ rows \in SeqsUpTo(Texts, MaxRows)
    /\ max_size \in {None} \cup {Some(k) : k \in (-1)..MaxSize}
    /\ text_tokens = <<>> /\ tokens = <<>>
    /\ NoMapVars /\ NoFileVars /\ NoSplitVars /\ NoCollateVars

ComputeVocab ==
    /\ op = "init"
    /\ \E order \in Orders(VocabSet(rows, max_size)) :
          LET r == compute_vocab(rows, max_size, order)
          IN /\ self' = r.vocab
             /\ file' = r.file
             /\ err' = r.err
    /\ op' = "compute_vocab"
    /\ UNCHANGED <<all_labels, sort_key, required_mappings, set_order, loaded, rows, max_size,
                   text_tokens, tokens, vocab, val_ratio, train_set, val_set,
                   batch, pad_value, padded_batch, lengths>>

\* ToxicCommentDataset.__getitem__ over the loaded vocabulary: the token ids
GetItem ==
    /\ op = "load" /\ err = "none"
    /\ \E toks \in SeqsUpTo(TokenPool, MaxTokens) :
          /\ text_tokens' = toks
          /\ IF HasKey(loaded.label_to_index, UNK)
             THEN /\ tokens' = [i \in DOMAIN toks |-> Encode(loaded.label_to_index, toks[i])]
                  /\ err' = "none"
             ELSE /\ tokens' = <<>>
                  /\ err' = "KeyError"
    /\ op' = "getitem"
    /\ UNCHANGED <<all_labels, sort_key, required_mappings, set_order, self, file,
                   loaded, rows, max_size, vocab, val_ratio, train_set, val_set,
                   batch, pad_value, padded_batch, lengths>>

NextVocab == ComputeVocab \/ Load \/ GetItem

SpecVocab == InitVocab /\ [][NextVocab]_vars

\* ----- the claims about the vocabulary

Built == op = "compute_vocab"
CorpusTokens == Range(all_words(rows))
CountOf(w) == Get(Occurrences(rows), w)
KeptTokens == Keys(self.label_to_index) \ {PAD, UNK}
SizeGiven == max_size # None /\ max_size[1] >= 2

\* C4: with max_size omitted every distinct token of the corpus is kept; with
\* max_size given exactly the min(max_size - 2, distinct tokens) most frequent
\* ones are, and the vocabulary has at most max_size entries.
C4_SelectedTokens ==
    (Built /\ err = "none") =>
        /\ max_size = None => KeptTokens = CorpusTokens
        /\ SizeGiven =>
              /\ KeptTokens \subseteq CorpusTokens
              /\ Cardinality(KeptTokens)
                    = Min(max_size[1] - 2, Cardinality(CorpusTokens))
              /\ \A k \in KeptTokens : \A o \in CorpusTokens \ KeptTokens :
                    CountOf(k) >= CountOf(o)
              /\ size(self) <= max_size[1]

\* C5: for every corpus and max_size >= 2 or omitted the vocabulary is built,
\* <PAD> has index 0, <UNK> has index 1, and no corpus token has index 0 or 1.
C5_ReservedIndices ==
    (Built /\ (max_size = None \/ SizeGiven)) =>
        /\ err = "none"
        /\ index_of(self, PAD) = 0
        /\ index_of(self, UNK) = 1
        /\ \A t \in CorpusTokens :
              HasKey(self.label_to_index, t) => index_of(self, t) \notin {0, 1}

\* a corpus whose tokens tie in frequency and that holds the text "<PAD>",
\* with both reserved tokens away from their positions in the set's order
C5_Witness ==
    /\ Built /\ (max_size = None \/ SizeGiven) /\ err = "none"
    /\ Cardinality(CorpusTokens) >= 2
    /\ \A t, u \in CorpusTokens : CountOf(t) = CountOf(u)
    /\ lower(PAD) \in KeptTokens

\* C10: with max_size < 2 compute_vocab fails and writes no vocabulary.
C10_SmallSizeRejected ==
    (Built /\ max_size # None /\ max_size[1] < 2) => (err # "none" /\ file = <<>>)

\* C8: over a vocabulary built by compute_vocab, __getitem__ does not fail;
\* a token absent from the vocabulary is encoded as 1, a present one as its
\* index; there is one id per token, in order, each in 0..size()-1.
C8_UnknownFallback ==
    op = "getitem" =>
        /\ err = "none"
        /\ Len(tokens) = Len(text_tokens)
        /\ \A i \in DOMAIN text_tokens :
              /\ tokens[i] \in 0..(size(loaded) - 1)
              /\ tokens[i] = IF lower(text_tokens[i]) \in Keys(loaded.label_to_index)
                             THEN index_of(loaded, lower(text_tokens[i]))
                             ELSE 1

\* a comment with a token of the vocabulary after one that is absent from it
C8_Witness ==
    /\ op = "getitem" /\ err = "none" /\ Len(text_tokens) = 2
    /\ lower(text_tokens[1]) \notin Keys(loaded.label_to_index)
    /\ lower(text_tokens[2]) \in Keys(loaded.label_to_index)
    /\ tokens[1] = 1 /\ tokens[2] > 1

\* the file compute_vocab writes is read back by load() as written
VocabFileRoundTrip ==
    (op = "load" /\ rows # <<>>) => (err = "none" /\ Pairs(loaded) = Pairs(self))

\* --------------------------------------------------------- produce_datasets

\* a / b rounded toward zero, as int() rounds a float; b > 0
Trunc(a, b) == IF a >= 0 THEN a \div b ELSE -((-a) \div b)

\* line 118 with val_ratio given instead of 1 - val_ratio
train_size_of_ratio(ratio, n) == Trunc(ratio[1] * n, ratio[2])

\* line 118; the ratio is the fraction ratio[1] / ratio[2]
train_size(ratio, n) == Trunc((ratio[2] - ratio[1]) * n, ratio[2])

\* the rows of the csv file: a header and comments
CsvRows == {"id,comment_text", "r1", "r2"}

GoodVocabFile == PAD \o <<" ", "0", "\n">> \o UNK \o <<" ", "1", "\n">>
BadVocabFile == PAD \o <<"\n">>

InitSplit ==
    /\ op = "init" /\ err = "none"
    /\ rows \in SeqsUpTo(CsvRows, MaxCsvRows)
    /\ val_ratio \in {<<k, RatioDen>> : k \in (-1)..(RatioDen + 1)}
    /\ \/ vocab = "str" /\ file \in {GoodVocabFile, BadVocabFile}
       \/ vocab \in {"LabelIndexMap", "other"} /\ file = <<>>
    /\ loaded = IF vocab = "LabelIndexMap" THEN Enumerate(<<PAD, UNK>>) ELSE NoMap("unset")
    /\ train_set = <<>> /\ val_set = <<>>
    /\ max_size = None /\ text_tokens = <<>> /\ tokens = <<>>
    /\ NoMapVars /\ NoCollateVars

\* produce_datasets(csv_file, vocab, val_ratio): rows holds the csv file's rows
ProduceDatasets ==
    /\ op = "init"
    /\ LET data == SliceFrom(rows, 1)
           split_at == train_size(val_ratio, Len(data))
       IN \/ /\ vocab = "str"
             /\ \E order \in LoadOrders(file) : loaded' = load(file, order)
             /\ err' = loaded'.err
             /\ train_set' = IF err' = "none" THEN SliceTo(data, split_at) ELSE <<>>
             /\ val_set' = IF err' = "none" THEN SliceFrom(data, split_at) ELSE <<>>
          \/ /\ vocab = "LabelIndexMap"
             /\ train_set' = SliceTo(data, split_at)
             /\ val_set' = SliceFrom(data, split_at)
             /\ UNCHANGED <<loaded, err>>
          \/ /\ vocab \notin {"str", "LabelIndexMap"}
             /\ err' = "ValueError"
             /\ UNCHANGED <<loaded, train_set, val_set>>
    /\ op' = "produce_datasets"
    /\ UNCHANGED <<all_labels, sort_key, required_mappings, set_order, self, file,
                   rows, max_size, text_tokens, tokens, vocab, val_ratio,
                   batch, pad_value, padded_batch, lengths>>

NextSplit == ProduceDatasets

SpecSplit == InitSplit /\ [][NextSplit]_vars

DataRows == SubSeq(rows, 2, Len(rows))
ValidRatio == 0 <= val_ratio[1] /\ val_ratio[1] < val_ratio[2]

ToLong(x) == Trunc(x[1], x[2])

\* the groups of an example: tokens and classes (dataset.py, __getitem__)
NumGroups == 2

\* line 44 with reverse=True left out
SortBatchAscending(b) == Items(sorted([i \in DOMAIN b |-> <<Len(b[i][1]), b[i]>>], FALSE))

\* line 44
SortBatch(b) == Items(sorted([i \in DOMAIN b |-> <<Len(b[i][1]), b[i]>>], TRUE))

MaxOf(S) == CHOOSE m \in S : \A x \in S : x <= m

\* CollatePad(pad).__call__(b)
CollatePad(pad, b) ==
    IF b = <<>> THEN [err |-> "ValueError", padded_batch |-> <<>>, lengths |-> <<>>]
    ELSE LET sorted_batch == SortBatch(b)
             variable_lengths == [i \in DOMAIN sorted_batch |->
                                    [g \in 1..NumGroups |-> Len(sorted_batch[i][g])]]
             max_lengths == [g \in 1..NumGroups |->
                               MaxOf({variable_lengths[i][g] : i \in DOMAIN sorted_batch})]
         IN [err |-> "none",
             padded_batch |->
                [g \in 1..NumGroups |->
                   [i \in DOMAIN sorted_batch |->
                      [j \in 1..max_lengths[g] |->
                         IF j <= variable_lengths[i][g]
                         THEN ToLong(sorted_batch[i][g][j]) ELSE pad]]],
             lengths |->
                [g \in 1..NumGroups |->
                   [i \in DOMAIN sorted_batch |-> variable_lengths[i][g]]]]

\* example i of a batch with the given lengths: the tokens are the ints
\* 10 * i + j, the classes the same ints or, with halves, those plus 1/2
Example(i, lens, halves) ==
    << [j \in 1..lens[1] |-> <<10 * i + j, 1>>],
       [j \in 1..lens[2] |->
           IF halves THEN <<2 * (10 * i + j) + 1, 2>> ELSE <<10 * i + j, 1>>] >>

Batches ==
    {[i \in DOMAIN lens |-> Example(i, lens[i], halves)] :
        lens \in SeqsUpTo((0..MaxSeqLen) \X (0..MaxSeqLen), MaxBatch),
        halves \in BOOLEAN}

InitCollate ==
    /\ op = "init" /\ err = "none"
    /\ batch \in Batches
    /\ pad_value \in {0, 11}
    /\ padded_batch = <<>> /\ lengths = <<>>
    /\ NoMapVars /\ NoFileVars /\ NoVocabVars /\ NoSplitVars

Collate ==
    /\ op = "init"
    /\ LET r == CollatePad(pad_value, batch)
       IN /\ padded_batch' = r.padded_batch
          /\ lengths' = r.lengths
          /\ err' = r.err
    /\ op' = "collate"
    /\ UNCHANGED <<all_labels, sort_key, required_mappings, set_order, self, file,
                   loaded, rows, max_size, text_tokens, tokens, vocab, val_ratio,
                   train_set, val_set, batch, pad_value>>

NextCollate == Collate

SpecCollate == InitCollate /\ [][NextCollate]_vars

\* ----- the claims about collation

Collated == op = "collate" /\ batch # <<>>

\* the order the claim asks for: descending length of group 0, ties in the
\* order of the batch
IsOutputOrder(p) ==
    /\ Range(p) = DOMAIN batch
    /\ \A i, j \in DOMAIN p :
          i < j => \/ Len(batch[p[i]][1]) > Len(batch[p[j]][1])
                   \/ Len(batch[p[i]][1]) = Len(batch[p[j]][1]) /\ p[i] < p[j]

OutputOrder == CHOOSE p \in [DOMAIN batch -> DOMAIN batch] : IsOutputOrder(p)

GroupMax(g) == MaxOf({Len(batch[i][g]) : i \in DOMAIN batch})

\* the shape, the order, the lengths and the padding of the output, with
\* Stored(v, x) saying that the stored int v stands for the element x
CollateLaw(Stored(_, _)) ==
    /\ err = "none"
    /\ \E p \in [DOMAIN batch -> DOMAIN batch] : IsOutputOrder(p)
    /\ Len(padded_batch) = NumGroups /\ Len(lengths) = NumGroups
    /\ LET order == OutputOrder
       IN \A g \in 1..NumGroups :
             LET longest == GroupMax(g)
             IN /\ Len(padded_batch[g]) = Len(batch) /\ Len(lengths[g]) = Len(batch)
                /\ \A i \in DOMAIN batch :
                      LET seq == batch[order[i]][g]
                      IN /\ lengths[g][i] = Len(seq)
                         /\ Len(padded_batch[g][i]) = longest
                         /\ \A j \in 1..longest :
                               IF j <= Len(seq)
                               THEN Stored(padded_batch[g][i][j], seq[j])
                               ELSE padded_batch[g][i][j] = pad_value

IsElement(v, x) == v * x[2] = x[1]
IsTruncated(v, x) == v * x[2] <= x[1] /\ x[1] < (v + 1) * x[2]

====
